---- MODULE Spec2Model ----
(***************************************************************************)
(* MOTOFIX notifications service: the two POST handlers of                 *)
(* app/routers/notifications.py (/notify/sms and /notify/whatsapp), the    *)
(* import-time initialisation of the Africa's Talking client that decides  *)
(* AT_READY, and the event loop the two `async def` handlers run on.       *)
(***************************************************************************)
EXTENDS Integers, Sequences, FiniteSets, TLC

\* Number of distinct opaque payloads the provider may return.
NumPayloads == 2

\* Client connections; each carries one request at a time.
Conn == {"A", "B"}

Channels == {"sms", "whatsapp"}

-----------------------------------------------------------------------------
(* Values of an HTTP request.  A field is absent or carries a JSON value;   *)
(* a query-string value is always a string.                                 *)

Absent == [t |-> "absent", v |-> ""]
JStr(s) == [t |-> "str", v |-> s]
JNum(s) == [t |-> "num", v |-> s]
JList(s) == [t |-> "list", v |-> s]

ToStrings == {"+256758969973"}
MessageStrings == {"Job alert", "New fuel job in Makindye"}

\* The query string: ?to=..&message=.. , each parameter present or not.
QueryStrings ==
    [to : {Absent} \cup {JStr(s) : s \in ToStrings},
     message : {Absent} \cup {JStr(s) : s \in MessageStrings}]

\* The JSON body: none, a well-formed SendRequest, the non-string payload of
\* the tests, and one with `message` missing.
JsonBodies ==
    { [to |-> Absent, message |-> Absent],
      [to |-> JStr("+256758969973"), message |-> JStr("Job alert")],
      [to |-> JNum("256758969973"), message |-> JList("not,a,string")],
      [to |-> JStr("+256758969973"), message |-> Absent] }

Requests == [chan : Channels, query : QueryStrings, json : JsonBodies]

NoRequest == [chan |-> "none", query |-> [to |-> Absent, message |-> Absent],
              json |-> [to |-> Absent, message |-> Absent]]

\* What the provider's send primitive may return or raise.
Payloads == {[id |-> i] : i \in 1..NumPayloads}
Errors == { [cls |-> "Exception", arg |-> "boom"],
            [cls |-> "Exception", arg |-> "Simulated send failure"],
            [cls |-> "KeyError", arg |-> "recipients"] }

NoOutcome == [k |-> "none"]
Returned(r) == [k |-> "returned", r |-> r]
Raised(e) == [k |-> "raised", e |-> e]

NoResponse == [code |-> 0]

\* Environment variable AT_API_KEY: unset, set to "", or set to a key.
ApiKeys == { [set |-> FALSE, v |-> ""], [set |-> TRUE, v |-> ""],
             [set |-> TRUE, v |-> "atsk_live_key"] }

VARIABLES
    phase,       \* "import" while the router module is being imported, then "serving"
    AT_API_KEY,  \* os.getenv("AT_API_KEY")
    atInit,      \* how the try block of the module ended
    AT_READY,    \* the module-level flag
    pc,          \* per connection: "idle", "pending", "calling", "done"
    req,         \* per connection: the request it carries
    resp,        \* per connection: the response produced
    calls,       \* per connection: provider primitives invoked for the request
    outcome,     \* per connection: what the provider call returned or raised
    running,     \* the connection whose handler holds the event loop, or "free"
    failed,      \* channels on which a provider call has raised so far
    prior        \* per connection: `failed` as it was when the request was posted

vars == <<phase, AT_API_KEY, atInit, AT_READY, pc, req, resp, calls, outcome,
          running, failed, prior>>

-----------------------------------------------------------------------------
(* Import-time initialisation, notifications.py lines 8-18.                 *)

\* africastalking.initialize(AT_USERNAME, AT_API_KEY): the client rejects a
\* None key; with a str key, empty or not, it may or may not raise.
initialize_can_succeed(key) == key.set

StartupOutcomes == {"ok", "ImportError", "initialize raised", "AttributeError"}

\* Variant: AT_READY = True is assigned before the primitives are looked up,
\* so a missing africastalking.WhatsApp leaves the flag set.
ModuleImportReadyEarly ==
    /\ phase = "import"
    /\ \E o \in StartupOutcomes :
          /\ (o = "ok") => initialize_can_succeed(AT_API_KEY)
          /\ atInit' = o
          /\ AT_READY' = (o \in {"ok", "AttributeError"})
    /\ phase' = "serving"
    /\ UNCHANGED <<AT_API_KEY, pc, req, resp, calls, outcome, running, failed, prior>>

ModuleImport ==
    /\ phase = "import"
    /\ \E o \in StartupOutcomes :
          /\ (o = "ok") => initialize_can_succeed(AT_API_KEY)
          /\ atInit' = o
          /\ AT_READY' = (o = "ok")
    /\ phase' = "serving"
    /\ UNCHANGED <<AT_API_KEY, pc, req, resp, calls, outcome, running, failed, prior>>

-----------------------------------------------------------------------------
(* Request binding.  The handlers are declared                              *)
(*     async def send_sms(to: str, message: str)                            *)
(* with plain `str` parameters, which FastAPI binds from the query string;  *)
(* the JSON body is not read.                                               *)

\* Variant: `message` has a default, only `to` is required.
ValidatesToOnly(rq) == rq.query.to.t = "str"

Validates(rq) == rq.query.to.t = "str" /\ rq.query.message.t = "str"

\* The arguments the handler is called with.
Arg(rq, name) == rq.query[name].v

ValidationError == [code |-> 422, body |-> [detail |-> "Field required"]]

\* str(e) of a Python exception: the message, but the repr of the key for a
\* KeyError.
Str(e) == IF e.cls = "KeyError" THEN "'" \o e.arg \o "'" ELSE e.arg

\* Argument values handed to the provider: a str or a list of str.
StrArg(s) == [t |-> "str", v |-> <<s>>]
ListArg(q) == [t |-> "list", v |-> q]

-----------------------------------------------------------------------------
(* The values the handlers build.                                           *)

FakeSms(to, message) ==
    [code |-> 200,
     body |-> [status |-> "fake", to |-> to, message |-> message,
               note |-> "AT not configured"]]

\* Variant: the fake result echoes the two fields the wrong way round.
FakeWhatsappSwapped(to, message) ==
    [code |-> 200,
     body |-> [status |-> "fake", to |-> message, message |-> to,
               note |-> "WhatsApp test mode"]]

FakeWhatsapp(to, message) ==
    [code |-> 200,
     body |-> [status |-> "fake", to |-> to, message |-> message,
               note |-> "WhatsApp test mode"]]

\* sms.send(message, [to])
SmsSend(to, message) ==
    [prim |-> "sms.send", style |-> "positional",
     message |-> StrArg(message), recipients |-> ListArg(<<to>>)]

\* Variant: the WhatsApp handler sends through the SMS primitive.
WhatsappSendViaSms(to, message) ==
    [prim |-> "sms.send", style |-> "positional",
     message |-> StrArg(message), recipients |-> ListArg(<<to>>)]

\* whatsapp.send(message=message, recipients=[to])
WhatsappSend(to, message) ==
    [prim |-> "whatsapp.send", style |-> "keyword",
     message |-> StrArg(message), recipients |-> ListArg(<<to>>)]

SentSms(r) ==
    [code |-> 200, body |-> [status |-> "sent", provider |-> "SMS", response |-> r]]

\* Variant: the WhatsApp handler labels its result with the SMS provider.
SentWhatsappAsSms(r) ==
    [code |-> 200, body |-> [status |-> "sent", provider |-> "SMS", response |-> r]]

SentWhatsapp(r) ==
    [code |-> 200,
     body |-> [status |-> "sent", provider |-> "WhatsApp", response |-> r]]

\* Variant: a provider error is answered with a fake result instead of a 500.
FakeOnException(e) ==
    [code |-> 200, body |-> [status |-> "fake", note |-> Str(e)]]

\* raise HTTPException(500, detail=str(e))
HTTPException500(e) == [code |-> 500, body |-> [detail |-> Str(e)]]

-----------------------------------------------------------------------------
(* Requests.                                                                *)

Init ==
    /\ phase = "import"
    /\ AT_API_KEY \in ApiKeys
    /\ atInit = "pending"
    /\ AT_READY = FALSE
    /\ pc = [c \in Conn |-> "idle"]
    /\ req = [c \in Conn |-> NoRequest]
    /\ resp = [c \in Conn |-> NoResponse]
    /\ calls = [c \in Conn |-> <<>>]
    /\ outcome = [c \in Conn |-> NoOutcome]
    /\ running = "free"
    /\ failed = {}
    /\ prior = [c \in Conn |-> {}]

\* A client posts a request on an idle connection.
Post(c) ==
    /\ phase = "serving"
    /\ pc[c] = "idle"
    /\ \E rq \in Requests : req' = [req EXCEPT ![c] = rq]
    /\ pc' = [pc EXCEPT ![c] = "pending"]
    /\ prior' = [prior EXCEPT ![c] = failed]
    /\ UNCHANGED <<phase, AT_API_KEY, atInit, AT_READY, resp, calls, outcome,
                   running, failed>>

\* The framework rejects a request whose parameters do not bind.
RequestValidationError(c) ==
    /\ running = "free"
    /\ pc[c] = "pending"
    /\ ~Validates(req[c])
    /\ resp' = [resp EXCEPT ![c] = ValidationError]
    /\ pc' = [pc EXCEPT ![c] = "done"]
    /\ UNCHANGED <<phase, AT_API_KEY, atInit, AT_READY, req, calls, outcome,
                   running, failed, prior>>

\* send_sms up to the provider call.  The coroutine has no await: from here
\* to its return nothing else runs on the event loop.
send_sms(c) ==
    /\ running = "free"
    /\ pc[c] = "pending"
    /\ req[c].chan = "sms"
    /\ Validates(req[c])
    /\ LET to == Arg(req[c], "to")
           message == Arg(req[c], "message")
       IN  IF ~AT_READY
           THEN /\ resp' = [resp EXCEPT ![c] = FakeSms(to, message)]
                /\ pc' = [pc EXCEPT ![c] = "done"]
                /\ UNCHANGED <<calls, running>>
           ELSE /\ calls' = [calls EXCEPT ![c] = Append(@, SmsSend(to, message))]
                /\ pc' = [pc EXCEPT ![c] = "calling"]
                /\ running' = c
                /\ UNCHANGED resp
    /\ UNCHANGED <<phase, AT_API_KEY, atInit, AT_READY, req, outcome, failed, prior>>

\* sms.send returned: return {"status": "sent", ...}
send_sms_return(c) ==
    /\ pc[c] = "calling"
    /\ req[c].chan = "sms"
    /\ \E r \in Payloads :
          /\ outcome' = [outcome EXCEPT ![c] = Returned(r)]
          /\ resp' = [resp EXCEPT ![c] = SentSms(r)]
    /\ pc' = [pc EXCEPT ![c] = "done"]
    /\ running' = "free"
    /\ UNCHANGED <<phase, AT_API_KEY, atInit, AT_READY, req, calls, failed, prior>>

\* Variant: a provider error switches the service to fake mode.
send_sms_except_disables(c) ==
    /\ pc[c] = "calling"
    /\ req[c].chan = "sms"
    /\ \E e \in Errors :
          /\ outcome' = [outcome EXCEPT ![c] = Raised(e)]
          /\ resp' = [resp EXCEPT ![c] = HTTPException500(e)]
    /\ pc' = [pc EXCEPT ![c] = "done"]
    /\ running' = "free"
    /\ failed' = failed \cup {"sms"}
    /\ AT_READY' = FALSE
    /\ UNCHANGED <<phase, AT_API_KEY, atInit, req, calls, prior>>

\* sms.send raised: except Exception as e
send_sms_except(c) ==
    /\ pc[c] = "calling"
    /\ req[c].chan = "sms"
    /\ \E e \in Errors :
          /\ outcome' = [outcome EXCEPT ![c] = Raised(e)]
          /\ resp' = [resp EXCEPT ![c] = HTTPException500(e)]
    /\ pc' = [pc EXCEPT ![c] = "done"]
    /\ running' = "free"
    /\ failed' = failed \cup {"sms"}
    /\ UNCHANGED <<phase, AT_API_KEY, atInit, AT_READY, req, calls, prior>>

\* Variant: once an SMS send has failed, WhatsApp stops calling the provider.
send_whatsapp_gives_up(c) ==
    /\ running = "free"
    /\ pc[c] = "pending"
    /\ req[c].chan = "whatsapp"
    /\ Validates(req[c])
    /\ LET to == Arg(req[c], "to")
           message == Arg(req[c], "message")
       IN  IF ~AT_READY \/ "sms" \in failed
           THEN /\ resp' = [resp EXCEPT ![c] = FakeWhatsapp(to, message)]
                /\ pc' = [pc EXCEPT ![c] = "done"]
                /\ UNCHANGED <<calls, running>>
           ELSE /\ calls' = [calls EXCEPT ![c] = Append(@, WhatsappSend(to, message))]
                /\ pc' = [pc EXCEPT ![c] = "calling"]
                /\ running' = c
                /\ UNCHANGED resp
    /\ UNCHANGED <<phase, AT_API_KEY, atInit, AT_READY, req, outcome, failed, prior>>

send_whatsapp(c) ==
    /\ running = "free"
    /\ pc[c] = "pending"
    /\ req[c].chan = "whatsapp"
    /\ Validates(req[c])
    /\ LET to == Arg(req[c], "to")
           message == Arg(req[c], "message")
       IN  IF ~AT_READY
           THEN /\ resp' = [resp EXCEPT ![c] = FakeWhatsapp(to, message)]
                /\ pc' = [pc EXCEPT ![c] = "done"]
                /\ UNCHANGED <<calls, running>>
           ELSE /\ calls' = [calls EXCEPT ![c] = Append(@, WhatsappSend(to, message))]
                /\ pc' = [pc EXCEPT ![c] = "calling"]
                /\ running' = c
                /\ UNCHANGED resp
    /\ UNCHANGED <<phase, AT_API_KEY, atInit, AT_READY, req, outcome, failed, prior>>

send_whatsapp_return(c) ==
    /\ pc[c] = "calling"
    /\ req[c].chan = "whatsapp"
    /\ \E r \in Payloads :
          /\ outcome' = [outcome EXCEPT ![c] = Returned(r)]
          /\ resp' = [resp EXCEPT ![c] = SentWhatsapp(r)]
    /\ pc' = [pc EXCEPT ![c] = "done"]
    /\ running' = "free"
    /\ UNCHANGED <<phase, AT_API_KEY, atInit, AT_READY, req, calls, failed, prior>>

send_whatsapp_except(c) ==
    /\ pc[c] = "calling"
    /\ req[c].chan = "whatsapp"
    /\ \E e \in Errors :
          /\ outcome' = [outcome EXCEPT ![c] = Raised(e)]
          /\ resp' = [resp EXCEPT ![c] = HTTPException500(e)]
    /\ pc' = [pc EXCEPT ![c] = "done"]
    /\ running' = "free"
    /\ failed' = failed \cup {"whatsapp"}
    /\ UNCHANGED <<phase, AT_API_KEY, atInit, AT_READY, req, calls, prior>>

\* The client has read the response; the connection is free for another request.
Receive(c) ==
    /\ pc[c] = "done"
    /\ pc' = [pc EXCEPT ![c] = "idle"]
    /\ req' = [req EXCEPT ![c] = NoRequest]
    /\ resp' = [resp EXCEPT ![c] = NoResponse]
    /\ calls' = [calls EXCEPT ![c] = <<>>]
    /\ outcome' = [outcome EXCEPT ![c] = NoOutcome]
    /\ prior' = [prior EXCEPT ![c] = {}]
    /\ UNCHANGED <<phase, AT_API_KEY, atInit, AT_READY, running, failed>>

\* The steps that move request c towards its response.
Progress(c) ==
    \/ RequestValidationError(c)
    \/ send_sms(c)
    \/ send_whatsapp(c)

Next ==
    \/ ModuleImport
    \/ \E c \in Conn : Post(c)
    \/ \E c \in Conn : RequestValidationError(c)
    \/ \E c \in Conn : send_sms(c)
    \/ \E c \in Conn : send_sms_return(c)
    \/ \E c \in Conn : send_sms_except(c)
    \/ \E c \in Conn : send_whatsapp(c)
    \/ \E c \in Conn : send_whatsapp_return(c)
    \/ \E c \in Conn : send_whatsapp_except(c)
    \/ \E c \in Conn : Receive(c)

Spec == Init /\ [][Next]_vars

TypeOK ==
    /\ phase \in {"import", "serving"}
    /\ AT_READY \in BOOLEAN
    /\ running \in Conn \cup {"free"}
    /\ failed \subseteq Channels
    /\ \A c \in Conn : pc[c] \in {"idle", "pending", "calling", "done"}

-----------------------------------------------------------------------------
(* Properties.                                                              *)

Done(c) == pc[c] = "done"

\* A JSON body that is a SendRequest: string `to` and string `message`.
WellFormed(rq) == rq.json.to.t = "str" /\ rq.json.message.t = "str"

FakeNote(chan) == IF chan = "sms" THEN "AT not configured" ELSE "WhatsApp test mode"
ProviderName(chan) == IF chan = "sms" THEN "SMS" ELSE "WhatsApp"

\* The parameters as the handlers receive them: both present in the query
\* string (a query value is always a string).
Lacks(rq, f) == rq.query[f].t = "absent"
Carries(rq) == ~Lacks(rq, "to") /\ ~Lacks(rq, "message")

\* C1: every request that carries string `to` and `message` while the ready
\* flag is false is answered 200 with status "fake", `to` and `message`
\* echoed unchanged and the channel's note, and invokes no provider primitive.
C1_FakeEcho ==
    \A c \in Conn :
        (~AT_READY /\ Carries(req[c])) =>
            /\ calls[c] = <<>>
            /\ pc[c] # "calling"
            /\ Done(c) =>
                  resp[c] = [code |-> 200,
                             body |-> [status |-> "fake",
                                       to |-> req[c].query.to.v,
                                       message |-> req[c].query.message.v,
                                       note |-> FakeNote(req[c].chan)]]

C1_Witness ==
    /\ phase = "serving" /\ ~AT_READY
    /\ \E a, b \in Conn :
          /\ Done(a) /\ req[a].chan = "sms" /\ resp[a].code = 200
          /\ resp[a].body.message = "New fuel job in Makindye"
          /\ Done(b) /\ req[b].chan = "whatsapp" /\ resp[b].code = 200
          /\ resp[b].body.message = "Job alert"

C3_MalformedRejected ==
    \A c \in Conn :
        (pc[c] # "idle" /\ (Lacks(req[c], "to") \/ Lacks(req[c], "message"))) =>
            /\ calls[c] = <<>>
            /\ pc[c] # "calling"
            /\ Done(c) => resp[c].code = 422

C3_Witness ==
    /\ AT_READY
    /\ \E a, b \in Conn :
          /\ Done(a) /\ req[a].json.to.t = "num" /\ req[a].json.message.t = "list"
          /\ Lacks(req[a], "to") /\ resp[a].code = 422
          /\ Done(b) /\ ~Lacks(req[b], "to") /\ Lacks(req[b], "message")
          /\ resp[b].code = 422

\* C4: when the ready flag is true and the provider's send primitive raises,
\* the request ends with status 500 whose detail is the error's string
\* description; never with a 200, never with the fake result.
C4_ProviderErrorIs500 ==
    \A c \in Conn :
        (Done(c) /\ outcome[c].k = "raised") =>
            /\ AT_READY
            /\ resp[c].code = 500
            /\ resp[c].body = [detail |-> Str(outcome[c].e)]

C4_Witness ==
    \E a, b \in Conn :
        /\ Done(a) /\ req[a].chan = "sms" /\ outcome[a].k = "raised"
        /\ outcome[a].e.cls = "KeyError"
        /\ Done(b) /\ req[b].chan = "whatsapp" /\ outcome[b].k = "raised"
        /\ resp[b].code = 500

\* C5: when the ready flag is true and the provider call returns a payload r,
\* the response is 200 with status "sent", provider "SMS" or "WhatsApp"
\* after the endpoint, and response equal to r.
C5_SentWrapsPayload ==
    \A c \in Conn :
        (Done(c) /\ outcome[c].k = "returned") =>
            /\ AT_READY
            /\ resp[c] = [code |-> 200,
                          body |-> [status |-> "sent",
                                    provider |-> ProviderName(req[c].chan),
                                    response |-> outcome[c].r]]

C5_Witness ==
    \E a, b \in Conn :
        /\ Done(a) /\ req[a].chan = "sms" /\ outcome[a] = Returned([id |-> 1])
        /\ Done(b) /\ req[b].chan = "whatsapp"
        /\ outcome[b] = Returned([id |-> NumPayloads])

\* C6: the ready flag is assigned once, at startup; after startup it equals
\* its startup value in every state, whatever requests have been served.
C6_ReadyFixed == [][phase = "serving" => AT_READY' = AT_READY]_vars

C6_Witness ==
    /\ phase = "serving" /\ AT_READY
    /\ failed = Channels
    /\ \E a, b \in Conn :
          /\ Done(a) /\ outcome[a].k = "raised"
          /\ Done(b) /\ resp[b].code = 422

\* C7 as stated: the ready flag is true only when a non-empty API key is
\* present and initialisation succeeded; when the key is absent or
\* initialisation fails the flag is false and requests are served in fake mode.
C7_ReadyNeedsKey ==
    phase = "serving" =>
        /\ AT_READY => (AT_API_KEY.set /\ AT_API_KEY.v # "" /\ atInit = "ok")
        /\ (~AT_API_KEY.set \/ atInit # "ok") =>
              /\ ~AT_READY
              /\ \A c \in Conn :
                    (Done(c) /\ Carries(req[c])) =>
                        (resp[c].code = 200 /\ resp[c].body.status = "fake")

\* C7 amended: the ready flag is true exactly when the import of the
\* provider library, its initialisation and the lookup of both primitives
\* all completed without raising, whatever the key is; when any of them
\* fails the flag is false, no provider primitive is invoked and every
\* request that carries both parameters is served in fake mode.
C7_ReadyIffInitialized ==
    phase = "serving" =>
        /\ AT_READY <=> (atInit = "ok")
        /\ atInit # "ok" =>
              \A c \in Conn :
                  /\ calls[c] = <<>>
                  /\ (Done(c) /\ Carries(req[c])) =>
                        (resp[c].code = 200 /\ resp[c].body.status = "fake")

C7_Witness ==
    /\ phase = "serving"
    /\ AT_API_KEY.set /\ AT_API_KEY.v # ""
    /\ atInit = "AttributeError"
    /\ \E c \in Conn :
          Done(c) /\ Carries(req[c]) /\ resp[c].body.status = "fake"

\* C8: a request waiting on its provider call blocks no other request: while
\* A is inside a provider call, a pending request B can take its next step
\* without A's call returning first.
C8_NoBlocking ==
    \A a, b \in Conn :
        (a # b /\ pc[a] = "calling" /\ pc[b] = "pending") => ENABLED Progress(b)

\* C9: the outcome of a request that reaches the channel logic depends only
\* on the ready flag and on its own provider call, not on earlier requests:
\* after provider failures on either channel a call that returns still gives
\* the sent result, and in not-ready mode the fake result.
C9_Independent ==
    \A c \in Conn :
        (Done(c) /\ Validates(req[c])) =>
            resp[c] =
                IF ~AT_READY
                THEN [code |-> 200,
                      body |-> [status |-> "fake", to |-> Arg(req[c], "to"),
                                message |-> Arg(req[c], "message"),
                                note |-> FakeNote(req[c].chan)]]
                ELSE IF outcome[c].k = "returned"
                THEN [code |-> 200,
                      body |-> [status |-> "sent",
                                provider |-> ProviderName(req[c].chan),
                                response |-> outcome[c].r]]
                ELSE IF outcome[c].k = "raised"
                THEN [code |-> 500, body |-> [detail |-> Str(outcome[c].e)]]
                ELSE NoResponse

C9_Witness ==
    \E c \in Conn :
        /\ Done(c) /\ req[c].chan = "whatsapp"
        /\ prior[c] = Channels
        /\ outcome[c].k = "returned"
        /\ resp[c].body.status = "sent"

====
